---- MODULE Spec2Model ----
(***************************************************************************)
(* A model of the math-lang parsing engine (parser/src/parse.rs,           *)
(* parser/src/literal.rs) and of the demonstration grammar built on it     *)
(* (src/parsing.rs).  A stream (ParseBuffer) is a record of its three      *)
(* interior-mutable fields; every method is an operator from the stream    *)
(* state to its return value and the stream state it leaves behind.        *)
(***************************************************************************)
EXTENDS Integers, Sequences, FiniteSets, TLC

VARIABLES
    buf,      \* the TokenBuffer produced once by the lexer, never mutated
    streams,  \* stream name -> [cell, prev_span, node_id]
    last      \* the last operation: its name, stream, type argument, result, and the streams before it

vars == <<buf, streams, last>>

----------------------------------------------------------------------------
(* Bounds *)

MaxLen == 2        \* longest token buffer of the engine specification
MaxForkLen == 2    \* longest token buffer of the two-stream specification
MaxVecLen == 3     \* longest token buffer of the combinator specification
MaxNode == 1       \* largest node_id a grammar stores in the two-stream specification

----------------------------------------------------------------------------
(* Spans, entries, buffers *)

SpanAt(i) == [lo |-> i, hi |-> i]

\* Span::empty(file): the start span handed to ParseBuffer::new
StartSpan == [lo |-> 0, hi |-> 0]

\* a.to(b): the enclosing range of two spans
SpanTo(a, b) ==
    [lo |-> IF a.lo <= b.lo THEN a.lo ELSE b.lo,
     hi |-> IF a.hi >= b.hi THEN a.hi ELSE b.hi]

LiteralKinds == {"String", "Char", "Int", "Float"}

\* what the lexer can emit for one lexed unit, before it is given its span
\* the 128-bit magnitude of an integer literal, as its two 64-bit words
U128(hi, lo) == [hi |-> hi, lo |-> lo]

\* a conversion that keeps the high 64 bits instead of the low ones
AsU64_highWord(m) == m.hi

\* `int as u64`: the low 64 bits
AsU64(m) == m.lo

IntTok(n) == [kind |-> "Int", val |-> U128(0, n)]
FloatTok == [kind |-> "Float", val |-> 3]
StringTok == [kind |-> "String", val |-> "abc"]
PunctTok(p) == [kind |-> "Punct", val |-> p]

\* the lexer's output: entry i carries the span of the i-th lexed unit
MkBuf(toks) ==
    [i \in 1..Len(toks) |->
        [kind |-> toks[i].kind, val |-> toks[i].val, span |-> SpanAt(i)]]

SeqsUpTo(S, n) == UNION {[1..k -> S] : k \in 0..n}

----------------------------------------------------------------------------
(* Cursor: a position in buf; Len(buf)+1 is end of input *)

None == [some |-> FALSE]
Some(v, rest) == [some |-> TRUE, v |-> v, rest |-> rest]

Begin == 1

CursorEof(c) == c > Len(buf)

CursorBump(c) == IF CursorEof(c) THEN c ELSE c + 1

CursorAny(c) == IF CursorEof(c) THEN None ELSE Some(buf[c], c + 1)

CursorLiteral(c) ==
    IF ~CursorEof(c) /\ buf[c].kind \in LiteralKinds
    THEN Some(buf[c], c + 1)
    ELSE None

CursorPunct(c, p) ==
    IF ~CursorEof(c) /\ buf[c].kind = "Punct" /\ buf[c].val = p
    THEN Some(buf[c], c + 1)
    ELSE None

CursorSpan(c) == buf[c].span

CursorOffset(a, b) == b - a

----------------------------------------------------------------------------
(* ParseBuffer *)

new(c, start) == [cell |-> c, prev_span |-> start, node_id |-> 0]

cursor(st) == st.cell

is_empty(st) == CursorEof(cursor(st))

span(st) == IF is_empty(st) THEN st.prev_span ELSE CursorSpan(cursor(st))

prev_span(st) == st.prev_span

Diagnostic(msg, sp) == [msg |-> msg, span |-> sp]

\* Result<T> of a method together with the stream state the call leaves
Ok(v, st) == [ok |-> TRUE, val |-> v, st |-> st]
Err(d, st) == [ok |-> FALSE, val |-> d, st |-> st]

\* error labelled with the span consumed last, whatever the position
error_prevSpan(st, msg) == Err(Diagnostic(msg, prev_span(st)), st)

error(st, msg) == Err(Diagnostic(msg, span(st)), st)

error_at(st, msg, sp) == Err(Diagnostic(msg, sp), st)

\* bump that moves on even at end of input
bump_pastEnd(st) == [st EXCEPT !.cell = st.cell + 1]

bump(st) == [st EXCEPT !.cell = CursorBump(st.cell)]

\* fork that starts the child's node ids afresh, as new does
fork_freshNode(st) == [cell |-> st.cell, prev_span |-> st.prev_span, node_id |-> 0]

fork(st) == [cell |-> st.cell, prev_span |-> st.prev_span, node_id |-> st.node_id]

\* the StepCursor handed to a step closure
StepCursorOf(st) == [span |-> span(st), cursor |-> st.cell]

StepCursorError(sc, msg) == Diagnostic(msg, sc.span)

\* what a step closure returns: Ok((node, rest)) or Err(diagnostic)
COk(v, rest) == [ok |-> TRUE, val |-> v, rest |-> rest]
CErr(d) == [ok |-> FALSE, val |-> d, rest |-> 0]

\* step that records the span before it runs the closure
step_dirtyFail(st, f) ==
    LET r == f[StepCursorOf(st)] IN
    IF ~r.ok
    THEN Err(r.val, [st EXCEPT !.prev_span = span(st)])
    ELSE Ok(r.val, [st EXCEPT !.prev_span = span(st), !.cell = r.rest])

\* step that installs the new cursor before it takes the span
step_spanAfter(st, f) ==
    LET r == f[StepCursorOf(st)] IN
    IF ~r.ok
    THEN Err(r.val, st)
    ELSE Ok(r.val, [st EXCEPT !.prev_span = span([st EXCEPT !.cell = r.rest]),
                              !.cell = r.rest])

\* step(f): f is the closure, a function applied once to the StepCursor
step(st, f) ==
    LET r == f[StepCursorOf(st)] IN
    IF ~r.ok
    THEN Err(r.val, st)
    ELSE Ok(r.val, [st EXCEPT !.prev_span = span(st), !.cell = r.rest])

\* steps measured from the other stream to this one
steps_fromOther(st, other) == CursorOffset(cursor(other), cursor(st))

steps(st, other) == CursorOffset(cursor(st), cursor(other))

skip(st) ==
    LET r == step(st, [c \in {StepCursorOf(st)} |->
                 LET a == CursorAny(c.cursor) IN
                 IF a.some THEN COk(TRUE, a.rest) ELSE COk(FALSE, c.cursor)])
    IN  IF r.ok THEN r ELSE Ok(FALSE, r.st)

----------------------------------------------------------------------------
(* Token capability: T::peek(cursor) *)

PunctTokens == {"TAdd", "TSub", "TMul", "TDiv", "TLParen", "TRParen"}

PunctOf(name) ==
    CASE name = "TAdd" -> "+"
      [] name = "TSub" -> "-"
      [] name = "TMul" -> "*"
      [] name = "TDiv" -> "/"
      [] name = "TLParen" -> "("
      [] name = "TRParen" -> ")"

LiteralPeek(c) == IF CursorLiteral(c).some THEN TRUE ELSE FALSE

PunctPeek(name, c) == CursorPunct(c, PunctOf(name)).some

TokenPeek(name, c) ==
    IF name = "Literal" THEN LiteralPeek(c) ELSE PunctPeek(name, c)

----------------------------------------------------------------------------
(* Parse capability: the built-in single-step parsers *)

ParseEntry(st) ==
    step(st, [c \in {StepCursorOf(st)} |->
        LET a == CursorAny(c.cursor) IN
        IF a.some THEN COk(a.v, a.rest)
        ELSE CErr(StepCursorError(c, "expected any token"))])

ParseString(st) ==
    step(st, [c \in {StepCursorOf(st)} |->
        LET l == CursorLiteral(c.cursor) IN
        IF l.some /\ l.v.kind = "String" THEN COk(l.v.val, l.rest)
        ELSE CErr(StepCursorError(c, "expected a string literal"))])

ParseLiteral(st) ==
    step(st, [c \in {StepCursorOf(st)} |->
        LET l == CursorLiteral(c.cursor) IN
        IF l.some THEN COk(l.v, l.rest)
        ELSE CErr(StepCursorError(c, "expected a string, character, integer or float"))])

\* IntLiteral::parse that takes any literal
ParseIntLiteral_anyLiteral(st) ==
    step(st, [c \in {StepCursorOf(st)} |->
        LET l == CursorLiteral(c.cursor) IN
        IF l.some THEN COk(l.v, l.rest)
        ELSE CErr(StepCursorError(c, "expected an integer"))])

ParseIntLiteral(st) ==
    step(st, [c \in {StepCursorOf(st)} |->
        LET l == CursorLiteral(c.cursor) IN
        IF l.some /\ l.v.kind = "Int" THEN COk(l.v, l.rest)
        ELSE CErr(StepCursorError(c, "expected an integer"))])

ParseFloatLiteral(st) ==
    step(st, [c \in {StepCursorOf(st)} |->
        LET l == CursorLiteral(c.cursor) IN
        IF l.some /\ l.v.kind = "Float" THEN COk(l.v, l.rest)
        ELSE CErr(StepCursorError(c, "expected a float"))])

ParseStringLiteral(st) ==
    step(st, [c \in {StepCursorOf(st)} |->
        LET l == CursorLiteral(c.cursor) IN
        IF l.some /\ l.v.kind = "String" THEN COk(l.v, l.rest)
        ELSE CErr(StepCursorError(c, "expected a string"))])

\* a type generated by token![punct ...]: one step that matches its punctuation
ParsePunct(name, st) ==
    step(st, [c \in {StepCursorOf(st)} |->
        LET p == CursorPunct(c.cursor, PunctOf(name)) IN
        IF p.some THEN COk(p.v, p.rest)
        ELSE CErr(StepCursorError(c, "expected punctuation"))])

BuiltinNames ==
    {"Entry", "String", "Literal", "IntLiteral", "FloatLiteral", "StringLiteral"}

ParseBase(name, st) ==
    CASE name = "Entry" -> ParseEntry(st)
      [] name = "String" -> ParseString(st)
      [] name = "Literal" -> ParseLiteral(st)
      [] name = "IntLiteral" -> ParseIntLiteral(st)
      [] name = "FloatLiteral" -> ParseFloatLiteral(st)
      [] name = "StringLiteral" -> ParseStringLiteral(st)
      [] OTHER -> ParsePunct(name, st)

----------------------------------------------------------------------------
(* Parse capability: the type parameter T of parse, Option<T> and Vec<T>.  *)
(* T is a built-in or token type (steps empty), or a grammar author's node *)
(* type: its Token::peek tests the first entry with a library token type   *)
(* and its Parse::parse parses its fields in order, each with `?`.         *)

BaseT(name) ==
    [name |-> name,
     peek |-> IF name \in PunctTokens \cup {"Literal"} THEN name ELSE "none",
     steps |-> <<>>]

NodeT(peek, fields) == [name |-> "node", peek |-> peek, steps |-> fields]

NoT == [name |-> "-", peek |-> "none", steps |-> <<>>]

RECURSIVE ParseFields(_, _, _)
ParseFields(fields, st, acc) ==
    IF fields = <<>> THEN Ok(acc, st)
    ELSE LET r == ParseBase(Head(fields), st) IN
         IF ~r.ok THEN r
         ELSE ParseFields(Tail(fields), r.st, Append(acc, r.val))

\* `let x = e;`: e is evaluated once and Body sees its value
Let(e, Body(_)) == CHOOSE y \in {Body(x) : x \in {e}} : TRUE

\* a grammar author's type that takes a node id from the stream's counter,
\* before it parses its fields ("first") or once they are parsed ("last")
IdNodeT(alloc, fields) ==
    [name |-> "idnode", peek |-> "none", steps |-> fields, alloc |-> alloc]

\* let id = input.node_id.get(); input.node_id.set(id + 1)
NextId(st) == [ret |-> st.node_id, st |-> [st EXCEPT !.node_id = @ + 1]]

IdNodeParse(T, st) ==
    IF T.alloc = "first"
    THEN Let(NextId(st), LAMBDA n :
         Let(ParseFields(T.steps, n.st, <<>>), LAMBDA r :
             IF r.ok THEN Ok([id |-> n.ret, v |-> r.val], r.st) ELSE r))
    ELSE Let(ParseFields(T.steps, st, <<>>), LAMBDA r :
             IF r.ok THEN Ok([id |-> NextId(r.st).ret, v |-> r.val], NextId(r.st).st)
             ELSE r)

\* T::parse(input)
TParse(T, st) ==
    IF T.name = "node" THEN ParseFields(T.steps, st, <<>>)
    ELSE IF T.name = "idnode" THEN IdNodeParse(T, st)
    ELSE ParseBase(T.name, st)

\* T::peek(cursor), for T: Token
TPeek(T, c) == TokenPeek(T.peek, c)

\* ParseBuffer::parse::<T>() and ParseBuffer::call(f)
parse(T, st) == TParse(T, st)

call(T, st) == TParse(T, st)

peek(T, st) == [ret |-> TPeek(T, cursor(st)), st |-> st]

\* peek2 that skips on the stream itself
peek2_noFork(T, st) ==
    LET s1 == skip(st)
    IN  [ret |-> s1.val /\ peek(T, s1.st).ret, st |-> s1.st]

peek2(T, st) ==
    LET ahead == fork(st)
        s1 == skip(ahead)
    IN  [ret |-> s1.val /\ peek(T, s1.st).ret, st |-> st]

\* peek3 that skips on the stream itself
peek3_noFork(T, st) ==
    LET s1 == skip(st)
        s2 == skip(s1.st)
    IN  [ret |-> s1.val /\ s2.val /\ peek(T, s2.st).ret, st |-> s2.st]

peek3(T, st) ==
    LET ahead == fork(st)
        s1 == skip(ahead)
        s2 == skip(s1.st)
    IN  [ret |-> s1.val /\ s2.val /\ peek(T, s2.st).ret, st |-> st]

\* peek4 that skips one entry too few
peek4_twoSkips(T, st) ==
    LET ahead == fork(st)
        s1 == skip(ahead)
        s2 == skip(s1.st)
    IN  [ret |-> s1.val /\ s2.val /\ peek(T, s2.st).ret, st |-> st]

peek4(T, st) ==
    LET ahead == fork(st)
        s1 == skip(ahead)
        s2 == skip(s1.st)
        s3 == skip(s2.st)
    IN  [ret |-> s1.val /\ s2.val /\ s3.val /\ peek(T, s3.st).ret, st |-> st]

NoneV == [some |-> FALSE, v |-> 0]
SomeV(v) == [some |-> TRUE, v |-> v]

\* Option<T>::parse that maps a failed T::parse to None
OptionParse_swallow(T, st) ==
    IF TPeek(T, cursor(st))
    THEN LET r == TParse(T, st) IN
         IF r.ok THEN Ok(SomeV(r.val), r.st) ELSE Ok(NoneV, r.st)
    ELSE Ok(NoneV, st)

\* impl Parse for Option<T>
OptionParse(T, st) ==
    IF TPeek(T, cursor(st))
    THEN LET r == TParse(T, st) IN
         IF r.ok THEN Ok(SomeV(r.val), r.st) ELSE r
    ELSE Ok(NoneV, st)

\* impl Parse for Vec<T>: the while loop, one iteration per call
RECURSIVE VecLoop(_, _, _)

\* the loop over a fork that shares the stream's node id counter
VecLoop_sharedIds(T, st, items) ==
    LET attempt == parse(T, fork(st))
        shared == [st EXCEPT !.node_id = attempt.st.node_id]
    IN  IF ~is_empty(st) /\ attempt.ok
        THEN LET r == parse(T, shared) IN
             IF ~r.ok THEN r
             ELSE VecLoop(T, r.st, Append(items, r.val))
        ELSE Ok(items, IF is_empty(st) THEN st ELSE shared)

VecLoop(T, st, items) ==
    IF ~is_empty(st) /\ parse(T, fork(st)).ok
    THEN LET r == parse(T, st) IN
         IF ~r.ok THEN r
         ELSE VecLoop(T, r.st, Append(items, r.val))
    ELSE Ok(items, st)

\* Vec<T>::parse that tries each element on the stream itself
RECURSIVE VecLoop_noFork(_, _, _)
VecLoop_noFork(T, st, items) ==
    IF is_empty(st) THEN Ok(items, st)
    ELSE LET r == parse(T, st) IN
         IF ~r.ok THEN Ok(items, r.st)
         ELSE VecLoop_noFork(T, r.st, Append(items, r.val))

VecParse_noFork(T, st) == VecLoop_noFork(T, st, <<>>)

\* Vec<T>::parse with `if` for `while`
VecParse_once(T, st) ==
    IF ~is_empty(st) /\ parse(T, fork(st)).ok
    THEN LET r == parse(T, st) IN
         IF ~r.ok THEN r ELSE Ok(<<r.val>>, r.st)
    ELSE Ok(<<>>, st)

VecParse(T, st) == VecLoop(T, st, <<>>)

----------------------------------------------------------------------------
(* The engine specification: one stream, every public operation *)

Tokens == {IntTok(1), FloatTok, StringTok, PunctTok("+")}

Buffers == {MkBuf(t) : t \in SeqsUpTo(Tokens, MaxLen)}

TokenTs == {BaseT("Literal"), BaseT("TAdd")}

BuiltinTs == {BaseT(n) : n \in BuiltinNames}

\* node types of a grammar: peek tests the first entry, parse takes the fields
NodeTs ==
    {NodeT("Literal", <<"IntLiteral">>),
     NodeT("Literal", <<"IntLiteral", "TAdd">>),
     NodeT("Literal", <<"Literal", "Literal">>),
     NodeT("TAdd", <<"TAdd", "Literal">>)}

Op(name, s, T, ok, ret) ==
    [op |-> name, s |-> s, T |-> T, arg |-> 0, ok |-> ok, ret |-> ret, pre |-> streams]

Init ==
    /\ buf \in Buffers
    /\ streams = [s \in {"input"} |-> new(Begin, StartSpan)]
    /\ last = Op("new", "input", NoT, TRUE, 0)

\* a read-only method: it returns ret and leaves every field alone
Read(name, s, T, ret) ==
    /\ last' = Op(name, s, T, TRUE, ret)
    /\ UNCHANGED <<buf, streams>>

\* a method returning Result: r = [ok, val, st]
Apply(name, s, T, r) ==
    /\ streams' = [streams EXCEPT ![s] = r.st]
    /\ last' = Op(name, s, T, r.ok, r.val)
    /\ UNCHANGED buf

\* a method returning a plain value: r = [ret, st]
Query(name, s, T, r) ==
    /\ streams' = [streams EXCEPT ![s] = r.st]
    /\ last' = Op(name, s, T, TRUE, r.ret)
    /\ UNCHANGED buf

DoSpan(s) == Read("span", s, NoT, span(streams[s]))

DoPrevSpan(s) == Read("prev_span", s, NoT, prev_span(streams[s]))

DoIsEmpty(s) == Read("is_empty", s, NoT, is_empty(streams[s]))

DoCursor(s) == Read("cursor", s, NoT, cursor(streams[s]))

DoSteps(s) == \E o \in DOMAIN streams :
    Read("steps", s, NoT, steps(streams[s], streams[o]))

DoError(s) == Apply("error", s, NoT, error(streams[s], "msg"))

DoErrorAt(s) == \E sp \in {StartSpan, prev_span(streams[s])} :
    Apply("error_at", s, NoT, error_at(streams[s], "msg", sp))

DoBump(s) == Query("bump", s, NoT, [ret |-> 0, st |-> bump(streams[s])])

\* fork() whose result the caller only reads and drops
DoFork(s) == Query("fork", s, NoT, [ret |-> fork(streams[s]), st |-> streams[s]])

DoPeek(s) == \E T \in TokenTs : Query("peek", s, T, peek(T, streams[s]))

DoPeek2(s) == \E T \in TokenTs : Query("peek2", s, T, peek2(T, streams[s]))

DoPeek3(s) == \E T \in TokenTs : Query("peek3", s, T, peek3(T, streams[s]))

DoPeek4(s) == \E T \in TokenTs : Query("peek4", s, T, peek4(T, streams[s]))

\* step(f) for a caller's closure: it fails, or returns a node and a cursor it
\* reached from the one it was given (by any, literal or bump: never backwards)
DoStep(s) ==
    \E good \in BOOLEAN, rest \in cursor(streams[s])..(Len(buf) + 1) :
        LET r == step(streams[s], [c \in {StepCursorOf(streams[s])} |->
                     IF good THEN COk("node", rest)
                     ELSE CErr(StepCursorError(c, "expected"))])
        IN  /\ good \/ rest = cursor(streams[s])
            /\ streams' = [streams EXCEPT ![s] = r.st]
            /\ last' = [Op("step", s, NoT, r.ok, r.val) EXCEPT !.arg = rest]
            /\ UNCHANGED buf

\* input.parse::<T>() for T among Ts
DoParseOf(s, Ts) == \E T \in Ts : Apply("parse", s, T, parse(T, streams[s]))

DoParse(s) == DoParseOf(s, BuiltinTs \cup {BaseT("TAdd")})

DoCall(s) == \E T \in NodeTs : Apply("call", s, T, call(T, streams[s]))

Next ==
    \/ \E s \in DOMAIN streams : DoSpan(s)
    \/ \E s \in DOMAIN streams : DoPrevSpan(s)
    \/ \E s \in DOMAIN streams : DoIsEmpty(s)
    \/ \E s \in DOMAIN streams : DoCursor(s)
    \/ \E s \in DOMAIN streams : DoSteps(s)
    \/ \E s \in DOMAIN streams : DoError(s)
    \/ \E s \in DOMAIN streams : DoErrorAt(s)
    \/ \E s \in DOMAIN streams : DoBump(s)
    \/ \E s \in DOMAIN streams : DoFork(s)
    \/ \E s \in DOMAIN streams : DoPeek(s)
    \/ \E s \in DOMAIN streams : DoPeek2(s)
    \/ \E s \in DOMAIN streams : DoPeek3(s)
    \/ \E s \in DOMAIN streams : DoPeek4(s)
    \/ \E s \in DOMAIN streams : DoStep(s)
    \/ \E s \in DOMAIN streams : DoParse(s)
    \/ \E s \in DOMAIN streams : DoCall(s)

Spec == Init /\ [][Next]_vars

----------------------------------------------------------------------------
(* Properties of the engine specification *)

Now == streams[last.s]
Pre == last.pre[last.s]

SameView(a, b) ==
    /\ cursor(a) = cursor(b)
    /\ span(a) = span(b)
    /\ prev_span(a) = prev_span(b)

\* C1: step atomicity. When the closure of step(f) returns a failure, step
\* returns that failure, and the stream's cursor, span() and prev_span() are
\* what they were before the call (the caller's closures and the built-in
\* single-step parsers alike).
C1_StepAtomicity ==
    (last.op \in {"step", "parse"} /\ ~last.ok) =>
        /\ SameView(Now, Pre)
        /\ last.ret.span = span(Pre)
        /\ last.op = "step" => last.ret = Diagnostic("expected", span(Pre))

C1_Witness ==
    /\ last.op = "step"
    /\ ~last.ok
    /\ ~is_empty(Pre)
    /\ prev_span(Pre) # span(Pre)

PeekOps == {"peek", "peek2", "peek3", "peek4"}

\* the operations that consume through step; call runs a node type's parse,
\* one step per field, so it may have advanced before it fails
StepOps == {"step", "parse", "call"}

ViaStep ==
    /\ last.op \in StepOps
    /\ last.op \in {"step", "parse"} => last.ok /\ prev_span(Now) = span(Pre)
    /\ last.op = "call" => prev_span(Now) = CursorSpan(cursor(Now) - 1)

C7_PeekNeverAdvances ==
    last.op \in PeekOps =>
        /\ SameView(Now, Pre)
        /\ last.ok
        /\ is_empty(Pre) => last.ret = FALSE

C7_Witness ==
    /\ last.op = "peek2"
    /\ last.ret = TRUE
    /\ cursor(Now) = Begin

\* C8: a successful step whose closure returns (r, c') returns r, installs c'
\* as the cursor, and sets prev_span to the value span() had before the call:
\* the span of the entry at the old cursor, or the old prev_span at end of input.
C8_StepSuccess ==
    (last.op = "step" /\ last.ok) =>
        /\ last.ret = "node"
        /\ cursor(Now) = last.arg
        /\ prev_span(Now) = span(Pre)
        /\ ~is_empty(Pre) => prev_span(Now) = buf[cursor(Pre)].span
        /\ is_empty(Pre) => prev_span(Now) = prev_span(Pre)

C8_Witness ==
    /\ last.op = "step"
    /\ last.ok
    /\ ~is_empty(Pre)
    /\ ~is_empty(Now)
    /\ cursor(Now) > cursor(Pre)
    /\ span(Now) # span(Pre)

\* the entries a built-in parser takes, and the value it returns for one
KindOf(name) ==
    CASE name = "Entry" -> LiteralKinds \cup {"Punct"}
      [] name = "String" -> {"String"}
      [] name = "Literal" -> LiteralKinds
      [] name = "IntLiteral" -> {"Int"}
      [] name = "FloatLiteral" -> {"Float"}
      [] name = "StringLiteral" -> {"String"}

ValueOf(name, e) == IF name = "String" THEN e.val ELSE e

\* C10: a built-in single-step parser succeeds exactly when the entry at the
\* cursor is of its kind; it then returns that entry's value and advances the
\* cursor by one entry; otherwise (another kind, or end of input) it returns
\* an error and leaves cursor and prev_span unchanged.  Entry fails only at
\* end of input.
C10_BuiltinParsers ==
    (last.op = "parse" /\ last.T.name \in BuiltinNames) =>
        LET c == cursor(Pre)
            hit == ~is_empty(Pre) /\ buf[c].kind \in KindOf(last.T.name)
        IN  /\ last.ok <=> hit
            /\ last.ok => /\ last.ret = ValueOf(last.T.name, buf[c])
                          /\ cursor(Now) = c + 1
            /\ ~last.ok => /\ cursor(Now) = c
                           /\ prev_span(Now) = prev_span(Pre)
            /\ last.T.name = "Entry" => (last.ok <=> ~is_empty(Pre))

C10_Witness ==
    /\ last.op = "parse"
    /\ last.T.name = "IntLiteral"
    /\ last.ok
    /\ cursor(Pre) > Begin
    /\ prev_span(Pre) # StartSpan
    /\ cursor(Now) = cursor(Pre) + 1

----------------------------------------------------------------------------
(* The two-stream specification: a parent stream and a fork that is kept *)

ForkTokens == {IntTok(1), PunctTok("+")}

ForkBuffers == {MkBuf(t) : t \in SeqsUpTo(ForkTokens, MaxForkLen)}

InitFork ==
    /\ buf \in ForkBuffers
    /\ streams = [s \in {"input"} |-> new(Begin, StartSpan)]
    /\ last = Op("new", "input", NoT, TRUE, 0)

\* let ahead = input.fork(): the child is kept beside the parent
DoForkAhead ==
    /\ streams' = [s \in {"input", "ahead"} |->
                      IF s = "ahead" THEN fork(streams["input"]) ELSE streams[s]]
    /\ last' = Op("fork", "input", NoT, TRUE, fork(streams["input"]))
    /\ UNCHANGED buf

\* stream.node_id.set(n): the public counter a grammar allocates ids from
DoSetNodeId(s) == \E n \in 0..MaxNode :
    Query("node_id", s, NoT, [ret |-> n, st |-> [streams[s] EXCEPT !.node_id = n]])

NextFork ==
    \/ DoForkAhead
    \/ \E s \in DOMAIN streams : DoStep(s)
    \/ \E s \in DOMAIN streams : DoParseOf(s, {BaseT("Entry"), BaseT("IntLiteral")})
    \/ \E s \in DOMAIN streams : DoSetNodeId(s)
    \/ \E s \in DOMAIN streams : DoSteps(s)

SpecFork == InitFork /\ [][NextFork]_vars

\* C3: fork independence. Right after child = parent.fork() the child has the
\* parent's cursor, prev_span and node_id; afterwards a step, parse or node_id
\* update on one of the two leaves the other's cursor, span(), prev_span()
\* and node_id unchanged.
C3_ForkIndependence ==
    /\ last.op = "fork" =>
          /\ streams["ahead"].cell = last.pre["input"].cell
          /\ streams["ahead"].prev_span = last.pre["input"].prev_span
          /\ streams["ahead"].node_id = last.pre["input"].node_id
          /\ streams["input"] = last.pre["input"]
    /\ (last.op \in {"step", "parse", "node_id"} /\ "ahead" \in DOMAIN last.pre) =>
          \A o \in DOMAIN streams \ {last.s} :
              /\ SameView(streams[o], last.pre[o])
              /\ streams[o].node_id = last.pre[o].node_id

C3_Witness ==
    /\ "ahead" \in DOMAIN streams
    /\ last.op = "parse"
    /\ last.s = "ahead"
    /\ last.ok
    /\ cursor(streams["ahead"]) > cursor(streams["input"])
    /\ prev_span(streams["ahead"]) # prev_span(streams["input"])
    /\ streams["ahead"].node_id # streams["input"].node_id

----------------------------------------------------------------------------
(* The combinator specification: parse::<T>(), Option<T> and Vec<T> *)

VecBuffers == {MkBuf(t) : t \in SeqsUpTo(Tokens, MaxVecLen)}

ElemTs == BuiltinTs \cup {BaseT("TAdd")} \cup NodeTs

InitComb ==
    /\ buf \in VecBuffers
    /\ streams = [s \in {"input"} |-> new(Begin, StartSpan)]
    /\ last = Op("new", "input", NoT, TRUE, 0)

DoParseOption(s) == \E T \in TokenTs \cup NodeTs :
    Apply("Option", s, T, OptionParse(T, streams[s]))

DoParseVec(s) == \E T \in ElemTs :
    Apply("Vec", s, T, VecParse(T, streams[s]))

NextComb ==
    \/ \E s \in DOMAIN streams : DoParse(s)
    \/ \E s \in DOMAIN streams : DoCall(s)
    \/ \E s \in DOMAIN streams : DoParseOption(s)
    \/ \E s \in DOMAIN streams : DoParseVec(s)

SpecComb == InitComb /\ [][NextComb]_vars

\* C4 as stated: Option<T>::parse never fails; it returns Some exactly when
\* T::peek is true, and None with cursor and prev_span unchanged otherwise.
C4_OptionNeverFails ==
    last.op = "Option" =>
        /\ last.ok
        /\ last.ret.some <=> TPeek(last.T, cursor(Pre))
        /\ ~TPeek(last.T, cursor(Pre)) =>
              /\ cursor(Now) = cursor(Pre)
              /\ prev_span(Now) = prev_span(Pre)

\* T::parse succeeds wherever T::peek is true: the library's Token types
PeekDecides(T) == T.name # "node"

\* C4, amended: when T::peek is false Option<T>::parse returns Ok(None) with
\* cursor and prev_span unchanged; when T::peek is true it returns what
\* T::parse returns on the stream: Ok(Some(v)) when that succeeds, and its
\* error, with whatever it consumed, when it fails.  So it never fails for a
\* T whose parse succeeds wherever its peek is true.
C4_OptionFailsWithT ==
    last.op = "Option" =>
        LET pk == TPeek(last.T, cursor(Pre))
            r == TParse(last.T, Pre)
        IN  /\ ~pk => /\ last.ok
                      /\ last.ret = NoneV
                      /\ cursor(Now) = cursor(Pre)
                      /\ prev_span(Now) = prev_span(Pre)
            /\ pk => /\ last.ok <=> r.ok
                     /\ last.ok => last.ret = SomeV(r.val)
                     /\ ~last.ok => last.ret = r.val
                     /\ Now = r.st
            /\ PeekDecides(last.T) => last.ok /\ (last.ret.some <=> pk)

C4_Witness ==
    /\ last.op = "Option"
    /\ TPeek(last.T, cursor(Pre))
    /\ ~last.ok
    /\ cursor(Now) > cursor(Pre)

\* the entries one field of an element type takes
FieldKinds(name) ==
    IF name \in BuiltinNames THEN KindOf(name) ELSE {"Punct"}

FieldHit(name, e) ==
    /\ e.kind \in FieldKinds(name)
    /\ name \in PunctTokens => e.val = PunctOf(name)

FieldsOf(T) == IF T.name = "node" THEN T.steps ELSE <<T.name>>

\* a valid encoding of T lies at position c of the buffer
ElemAt(T, c) ==
    /\ c + Len(FieldsOf(T)) - 1 <= Len(buf)
    /\ \A i \in 1..Len(FieldsOf(T)) : FieldHit(FieldsOf(T)[i], buf[c + i - 1])

\* the number of consecutive valid encodings of T from position c on
RECURSIVE CountElems(_, _)
CountElems(T, c) ==
    IF ElemAt(T, c) THEN 1 + CountElems(T, c + Len(FieldsOf(T))) ELSE 0

ElemValue(T, c) ==
    IF T.name = "node"
    THEN [i \in 1..Len(T.steps) |-> ValueOf(T.steps[i], buf[c + i - 1])]
    ELSE ValueOf(T.name, buf[c])

\* C5: Vec<T>::parse consumes exactly the maximal prefix of valid T elements:
\* with N consecutive valid encodings of T at the cursor it returns those N
\* elements in order and leaves the cursor at the first entry after them.
C5_VecMaximalPrefix ==
    last.op = "Vec" =>
        LET c == cursor(Pre)
            w == Len(FieldsOf(last.T))
            n == CountElems(last.T, c)
        IN  /\ last.ok
            /\ Len(last.ret) = n
            /\ \A k \in 1..n : last.ret[k] = ElemValue(last.T, c + (k - 1) * w)
            /\ cursor(Now) = c + n * w

C5_Witness ==
    /\ last.op = "Vec"
    /\ last.ok
    /\ Len(last.ret) = 2
    /\ ~is_empty(Now)
    /\ cursor(Pre) = Begin

\* C6: Vec<T>::parse never returns an error and never leaks partial
\* consumption: when the trailing attempt fails, also after a multi-step T
\* consumed entries on the fork, it returns Ok with the committed elements,
\* and cursor and prev_span are those right after the last committed element
\* (those at entry when none was committed).
C6_VecNoLeak ==
    last.op = "Vec" =>
        /\ last.ok
        /\ Len(last.ret) = 0 =>
              /\ cursor(Now) = cursor(Pre)
              /\ prev_span(Now) = prev_span(Pre)
        /\ Len(last.ret) > 0 =>
              /\ cursor(Now) = cursor(Pre) + Len(last.ret) * Len(FieldsOf(last.T))
              /\ prev_span(Now) = buf[cursor(Now) - 1].span

C6_Witness ==
    /\ last.op = "Vec"
    /\ last.T = NodeT("Literal", <<"IntLiteral", "TAdd">>)
    /\ last.ok
    /\ Len(last.ret) = 1
    /\ ~is_empty(Now)
    /\ buf[cursor(Now)].kind = "Int"
    /\ cursor(Now) = Len(buf)

----------------------------------------------------------------------------
(* The demonstration grammar *)

IntAst(sp, v) == [tag |-> "Int", span |-> sp, val |-> v]
OpAst(sp, op, l, r) == [tag |-> "Op", span |-> sp, op |-> op, left |-> l, right |-> r]
GroupAst(sp, e) == [tag |-> "Group", span |-> sp, expr |-> e]


RECURSIVE parse_add_sub(_)
RECURSIVE add_sub_loop(_, _, _)
RECURSIVE parse_mul_div(_)
RECURSIVE mul_div_loop(_, _, _)
RECURSIVE parse_int(_)

parse_int(st) ==
    Let(parse(BaseT("TLParen"), st), LAMBDA lp :
        IF lp.ok
        THEN Let(parse_add_sub(lp.st), LAMBDA sub :
                 IF ~sub.ok THEN sub
                 ELSE Let(parse(BaseT("TRParen"), sub.st), LAMBDA rp :
                          IF ~rp.ok THEN rp
                          ELSE Ok(GroupAst(SpanTo(lp.val.span, prev_span(rp.st)), sub.val),
                                  rp.st)))
        ELSE Let(parse(BaseT("IntLiteral"), lp.st), LAMBDA lit :
                 IF ~lit.ok THEN lit
                 ELSE Ok(IntAst(lit.val.span, AsU64(lit.val.val)), lit.st)))

\* the while loop of parse_mul_div, one iteration per call
mul_div_loop(st, start, result) ==
    IF ~is_empty(st) /\ (peek(BaseT("TMul"), st).ret \/ peek(BaseT("TDiv"), st).ret)
    THEN Let(parse(BaseT("TMul"), st), LAMBDA m :
             IF m.ok
             THEN Let(parse_int(m.st), LAMBDA right :
                      IF ~right.ok THEN right
                      ELSE mul_div_loop(right.st, start,
                               OpAst(SpanTo(start, prev_span(right.st)), "Mul",
                                     result, right.val)))
             ELSE Let(parse(BaseT("TDiv"), m.st), LAMBDA d :
                      IF ~d.ok THEN d
                      ELSE Let(parse_int(d.st), LAMBDA right :
                               IF ~right.ok THEN right
                               ELSE mul_div_loop(right.st, start,
                                        OpAst(SpanTo(start, prev_span(right.st)), "Div",
                                              result, right.val)))))
    ELSE Ok(result, st)

parse_mul_div(st) ==
    Let(span(st), LAMBDA start :
        Let(parse_int(st), LAMBDA first :
            IF ~first.ok THEN first ELSE mul_div_loop(first.st, start, first.val)))

\* the while loop of parse_add_sub, one iteration per call
add_sub_loop(st, start, result) ==
    IF ~is_empty(st) /\ (peek(BaseT("TAdd"), st).ret \/ peek(BaseT("TSub"), st).ret)
    THEN Let(parse(BaseT("TAdd"), st), LAMBDA a :
             IF a.ok
             THEN Let(parse_mul_div(a.st), LAMBDA right :
                      IF ~right.ok THEN right
                      ELSE add_sub_loop(right.st, start,
                               OpAst(SpanTo(start, prev_span(right.st)), "Add",
                                     result, right.val)))
             ELSE Let(parse(BaseT("TSub"), a.st), LAMBDA m :
                      IF ~m.ok THEN m
                      ELSE Let(parse_int(m.st), LAMBDA right :
                               IF ~right.ok THEN right
                               ELSE add_sub_loop(right.st, start,
                                        OpAst(SpanTo(start, prev_span(right.st)), "Sub",
                                              result, right.val)))))
    ELSE Ok(result, st)

parse_add_sub(st) ==
    Let(span(st), LAMBDA start :
        Let(parse_mul_div(st), LAMBDA first :
            IF ~first.ok THEN first ELSE add_sub_loop(first.st, start, first.val)))

----------------------------------------------------------------------------
(* The grammar specification: well-formed expressions, written out as the  *)
(* lexer's token sequence and parsed from the beginning                    *)

IntE(v) == [tag |-> "Int", val |-> v]
OpE(op, l, r) == [tag |-> "Op", op |-> op, left |-> l, right |-> r]
GroupE(e) == [tag |-> "Group", expr |-> e]

IntVals == {1, 2}
MulOps == {"Mul", "Div"}
AddOps == {"Add", "Sub"}

\* expressions in the shape standard precedence and left associativity give
Atoms == {IntE(v) : v \in IntVals}
Products == {OpE(m, a, b) : m \in MulOps, a \in Atoms, b \in Atoms}
Sums == {OpE(p, a, b) : p \in AddOps, a \in Atoms, b \in Atoms}
Groups == {GroupE(e) : e \in Sums}
Exprs ==
    Atoms \cup Products \cup Sums \cup Groups
    \cup {OpE(m, t, a) : m \in MulOps, t \in Products, a \in Atoms}
    \cup {OpE(p, e, a) : p \in AddOps, e \in Sums, a \in Atoms}
    \cup {OpE(p, t, a) : p \in AddOps, t \in Products, a \in Atoms}
    \cup {OpE(p, a, t) : p \in AddOps, a \in Atoms, t \in Products}
    \cup {OpE(m, a, g) : m \in MulOps, a \in Atoms, g \in Groups}
    \cup {OpE(p, a, OpE(m, b, g)) : p \in AddOps, m \in MulOps, a \in {IntE(2)},
                                   b \in {IntE(1)}, g \in Groups}

OpSymbol(op) ==
    CASE op = "Add" -> "+"
      [] op = "Sub" -> "-"
      [] op = "Mul" -> "*"
      [] op = "Div" -> "/"

\* the token sequence of an expression's source text
RECURSIVE Flatten(_)
Flatten(e) ==
    CASE e.tag = "Int" -> <<IntTok(e.val)>>
      [] e.tag = "Op" -> Flatten(e.left) \o <<PunctTok(OpSymbol(e.op))>> \o Flatten(e.right)
      [] e.tag = "Group" -> <<PunctTok("(")>> \o Flatten(e.expr) \o <<PunctTok(")")>>

Lex(e) == MkBuf(Flatten(e))

\* an Ast without its spans
RECURSIVE Strip(_)
Strip(a) ==
    CASE a.tag = "Int" -> IntE(a.val)
      [] a.tag = "Op" -> OpE(a.op, Strip(a.left), Strip(a.right))
      [] a.tag = "Group" -> GroupE(Strip(a.expr))

InitGrammar ==
    /\ buf \in {Lex(e) : e \in Exprs}
    /\ streams = [s \in {"input"} |-> new(Begin, StartSpan)]
    /\ last = Op("new", "input", NoT, TRUE, 0)

\* parsing::parse: Ast::parse_add_sub on a stream at the beginning of the buffer
DoParseAddSub ==
    /\ last.op = "new"
    /\ Apply("parse_add_sub", "input", NoT, parse_add_sub(streams["input"]))

NextGrammar == DoParseAddSub

SpecGrammar == InitGrammar /\ [][NextGrammar]_vars

\* C9: for every well-formed token sequence of integer literals, parentheses
\* and the four operators, parse_add_sub consumes the whole sequence and
\* returns the tree of standard precedence, in which the right operand of
\* every + and every - is a complete multiplicative term.
C9_StandardPrecedence ==
    last.op = "parse_add_sub" =>
        \A e \in Exprs :
            buf = Lex(e) =>
                /\ last.ok
                /\ is_empty(Now)
                /\ Strip(last.ret) = e

----------------------------------------------------------------------------
(* The lookahead specification: buffers long enough for peek4 to see an entry *)

MaxPeekLen == 4    \* longest token buffer of the lookahead specification

PeekBuffers == {MkBuf(t) : t \in SeqsUpTo(ForkTokens, MaxPeekLen)}

InitPeek ==
    /\ buf \in PeekBuffers
    /\ streams = [s \in {"input"} |-> new(Begin, StartSpan)]
    /\ last = Op("new", "input", NoT, TRUE, 0)

NextPeek ==
    \/ \E s \in DOMAIN streams : DoParseOf(s, {BaseT("Entry")})
    \/ \E s \in DOMAIN streams : DoPeek(s)
    \/ \E s \in DOMAIN streams : DoPeek2(s)
    \/ \E s \in DOMAIN streams : DoPeek3(s)
    \/ \E s \in DOMAIN streams : DoPeek4(s)

SpecPeek == InitPeek /\ [][NextPeek]_vars

\* the number of entries peekN skips
SkipsOf(op) ==
    CASE op = "peek2" -> 1
      [] op = "peek3" -> 2
      [] op = "peek4" -> 3

\* C11: for N in 2..4, peekN::<T>() is false when fewer than N-1 entries
\* remain at the cursor, and otherwise is T::peek at the position N-1 entries
\* past the cursor: true exactly when an entry of T's kind lies there.
C11_PeekNLooksAhead ==
    last.op \in {"peek2", "peek3", "peek4"} =>
        LET c == cursor(Pre)
            k == SkipsOf(last.op)
            remaining == Len(buf) + 1 - c
        IN  /\ remaining < k => last.ret = FALSE
            /\ remaining >= k =>
                  (last.ret <=> /\ c + k <= Len(buf)
                                /\ FieldHit(last.T.peek, buf[c + k]))

C11_Witness ==
    /\ last.op = "peek4"
    /\ last.ret = TRUE
    /\ last.T = BaseT("TAdd")
    /\ buf[cursor(Pre)].kind = "Int"

----------------------------------------------------------------------------
\* C12: within one stream the position only moves forward. Whatever the
\* operation (a step whose closure takes its result cursor from the cursor it
\* was given, bump, a parse, a peek, ...), the cursor afterwards is not before
\* the cursor at entry and not past the end-of-input position, and bump at
\* end of input leaves the cursor where it was.
C12_CursorOnlyForward ==
    /\ cursor(Now) >= cursor(Pre)
    /\ cursor(Now) <= Len(buf) + 1
    /\ (last.op = "bump" /\ is_empty(Pre)) => cursor(Now) = cursor(Pre)

C12_Witness ==
    /\ last.op = "bump"
    /\ is_empty(Pre)
    /\ cursor(Pre) > Begin
    /\ cursor(Now) = Len(buf) + 1

----------------------------------------------------------------------------
\* C13: prev_span() is always the start span given to new or the span of an
\* entry strictly before the current cursor, never the span of an entry that
\* has not been consumed; this includes the state after a successful step
\* whose closure returned the cursor unchanged and the state after bump.
C13_PrevSpanIsConsumed ==
    \/ prev_span(Now) = StartSpan
    \/ \E i \in 1..(cursor(Now) - 1) : prev_span(Now) = buf[i].span

----------------------------------------------------------------------------
\* C14: an error built by StepCursor::error inside a step closure (the
\* caller's or a built-in single-step parser's), or by ParseBuffer::error,
\* carries one label, and its span is the stream's span() when the step (or
\* error) was entered: the span of the entry at the cursor, or prev_span at
\* end of input.
C14_ErrorLabelsEntrySpan ==
    (/\ ~last.ok
     /\ \/ last.op \in {"step", "error"}
        \/ last.op = "parse" /\ last.T.steps = <<>>) =>
        /\ DOMAIN last.ret = {"msg", "span"}
        /\ last.ret.span = IF cursor(Pre) <= Len(buf)
                           THEN buf[cursor(Pre)].span
                           ELSE Pre.prev_span

C14_Witness ==
    /\ last.op = "error"
    /\ ~last.ok
    /\ cursor(Pre) > Len(buf)
    /\ Pre.prev_span # StartSpan
    /\ last.ret.span = buf[Len(buf)].span

----------------------------------------------------------------------------
(* The command-line pipeline: parse, analyze, run *)

\* Reporter::add: the reporter keeps the diagnostics in the order they came
ReporterAdd(reporter, d) == Append(reporter, d)

RECURSIVE analyze_ast(_, _)

\* analyze_op that does not look into the left operand
analyze_op_skipLeft(reporter, sp, op, left, right) ==
    LET r == analyze_ast(reporter, right)
    IN  IF op = "Div" /\ right.tag = "Int" /\ right.val = 0
        THEN ReporterAdd(r, Diagnostic("Cannot divide by 0", right.span))
        ELSE r

analyze_op(reporter, sp, op, left, right) ==
    LET r == analyze_ast(analyze_ast(reporter, left), right)
    IN  IF op = "Div" /\ right.tag = "Int" /\ right.val = 0
        THEN ReporterAdd(r, Diagnostic("Cannot divide by 0", right.span))
        ELSE r

analyze_ast(reporter, ast) ==
    CASE ast.tag = "Int" -> reporter
      [] ast.tag = "Op" -> analyze_op(reporter, ast.span, ast.op, ast.left, ast.right)
      [] ast.tag = "Group" -> analyze_ast(reporter, ast.expr)

\* analyze: the diagnostics the reporter holds when report is called
analyze(reporter, ast) == analyze_ast(reporter, ast)

\* a u64 result, or the way the evaluation stopped being tree arithmetic
Value(v) == [ok |-> TRUE, val |-> v]
Panic(why) == [ok |-> FALSE, val |-> why]

\* run. The model's operands stay far below 2^64, so of the four operators
\* only `-` can leave the u64 range; the outcome is then "overflow": a panic
\* where overflow checks are compiled in, a wrapped value elsewhere.
RECURSIVE run(_)

\* run that takes a Group for its span instead of its inner value
run_groupless(ast) ==
    CASE ast.tag = "Int" -> Value(ast.val)
      [] ast.tag = "Op" ->
            Let(run(ast.left), LAMBDA left :
            IF ~left.ok THEN left ELSE
            Let(run(ast.right), LAMBDA right :
            IF ~right.ok THEN right ELSE
            CASE ast.op = "Add" -> Value(left.val + right.val)
              [] ast.op = "Sub" -> IF left.val < right.val
                                   THEN Panic("overflow")
                                   ELSE Value(left.val - right.val)
              [] ast.op = "Mul" -> Value(left.val * right.val)
              [] ast.op = "Div" -> IF right.val = 0
                                   THEN Panic("divide by zero")
                                   ELSE Value(left.val \div right.val)))
      [] ast.tag = "Group" -> Value(ast.span.lo)

run(ast) ==
    CASE ast.tag = "Int" -> Value(ast.val)
      [] ast.tag = "Op" ->
            Let(run(ast.left), LAMBDA left :
            IF ~left.ok THEN left ELSE
            Let(run(ast.right), LAMBDA right :
            IF ~right.ok THEN right ELSE
            CASE ast.op = "Add" -> Value(left.val + right.val)
              [] ast.op = "Sub" -> IF left.val < right.val
                                   THEN Panic("overflow")
                                   ELSE Value(left.val - right.val)
              [] ast.op = "Mul" -> Value(left.val * right.val)
              [] ast.op = "Div" -> IF right.val = 0
                                   THEN Panic("divide by zero")
                                   ELSE Value(left.val \div right.val)))
      [] ast.tag = "Group" -> run(ast.expr)

MainVals == {0, 5}
AllOps == MulOps \cup AddOps

\* the scenario "2 + 3 * (4 - 1)"
Scenario == OpE("Add", IntE(2), OpE("Mul", IntE(3), GroupE(OpE("Sub", IntE(4), IntE(1)))))

MainAtoms == {IntE(v) : v \in MainVals}
MainProducts == {OpE(m, a, b) : m \in MulOps, a \in MainAtoms, b \in MainAtoms}
MainSums == {OpE(p, a, b) : p \in AddOps, a \in MainAtoms, b \in MainAtoms}
MainGroups == {GroupE(e) : e \in MainAtoms \cup MainProducts \cup MainSums}
MainExprs ==
    MainAtoms \cup MainProducts \cup MainSums \cup MainGroups \cup {Scenario}
    \cup {OpE(m, t, a) : m \in MulOps, t \in MainProducts, a \in MainAtoms}
    \cup {OpE(o, a, g) : o \in AllOps, a \in MainAtoms, g \in MainGroups}
    \cup {OpE(p, t, u) : p \in AddOps, t \in MainProducts, u \in MainProducts}

InitMain ==
    /\ buf \in {Lex(e) : e \in MainExprs}
    /\ streams = [s \in {"input"} |-> new(Begin, StartSpan)]
    /\ last = Op("new", "input", NoT, TRUE, 0)

\* analysis::analyze on the tree parsing::parse returned, with a fresh reporter
DoAnalyze ==
    /\ last.op = "parse_add_sub"
    /\ last.ok
    /\ last' = [Op("analyze", "input", NoT, TRUE, analyze(<<>>, last.ret))
                   EXCEPT !.arg = last.ret]
    /\ UNCHANGED <<buf, streams>>

\* run::run on the analysed tree
DoRun ==
    /\ last.op = "analyze"
    /\ LET r == run(last.arg)
       IN  last' = [Op("run", "input", NoT, r.ok, r.val) EXCEPT !.arg = last.arg]
    /\ UNCHANGED <<buf, streams>>

NextMain ==
    \/ DoParseAddSub
    \/ DoAnalyze
    \/ DoRun

SpecMain == InitMain /\ [][NextMain]_vars

\* every node of a tree
RECURSIVE Nodes(_)
Nodes(a) ==
    {a} \cup CASE a.tag = "Int" -> {}
               [] a.tag = "Op" -> Nodes(a.left) \cup Nodes(a.right)
               [] a.tag = "Group" -> Nodes(a.expr)

\* the spans of the literals 0 that are the right operand of a Div node
ZeroDivisors(a) ==
    {n.right.span : n \in {m \in Nodes(a) : /\ m.tag = "Op"
                                            /\ m.op = "Div"
                                            /\ m.right.tag = "Int"
                                            /\ m.right.val = 0}}

\* C15: "5 / 0" parses, consuming everything, as Op{Div, Int 5, Int 0}; and
\* analyze adds exactly one "Cannot divide by 0" diagnostic for every Div node
\* whose right operand is the integer literal 0, labelled with that literal's
\* span, and no diagnostic for any other node.
C15_DivideByZeroCheck ==
    /\ (last.op = "parse_add_sub" /\ buf = Lex(OpE("Div", IntE(5), IntE(0)))) =>
          /\ last.ok
          /\ is_empty(Now)
          /\ Strip(last.ret) = OpE("Div", IntE(5), IntE(0))
    /\ last.op = "analyze" =>
          /\ Len(last.ret) = Cardinality(ZeroDivisors(last.arg))
          /\ {last.ret[i].span : i \in DOMAIN last.ret} = ZeroDivisors(last.arg)
          /\ \A i \in DOMAIN last.ret : last.ret[i].msg = "Cannot divide by 0"

C15_Witness ==
    /\ last.op = "analyze"
    /\ Strip(last.arg) = OpE("Div", IntE(5), IntE(0))
    /\ last.ret = <<Diagnostic("Cannot divide by 0", buf[3].span)>>

----------------------------------------------------------------------------
\* tree arithmetic over the integers
RECURSIVE Arith(_)
Arith(e) ==
    CASE e.tag = "Int" -> e.val
      [] e.tag = "Group" -> Arith(e.expr)
      [] e.tag = "Op" /\ e.op = "Add" -> Arith(e.left) + Arith(e.right)
      [] e.tag = "Op" /\ e.op = "Sub" -> Arith(e.left) - Arith(e.right)
      [] e.tag = "Op" /\ e.op = "Mul" -> Arith(e.left) * Arith(e.right)
      [] e.tag = "Op" /\ e.op = "Div" -> Arith(e.left) \div Arith(e.right)

\* every sub-result lies in the u64 range and no divisor is 0
RECURSIVE InRange(_)
InRange(e) ==
    CASE e.tag = "Int" -> TRUE
      [] e.tag = "Group" -> InRange(e.expr)
      [] e.tag = "Op" ->
            /\ InRange(e.left)
            /\ InRange(e.right)
            /\ e.op = "Div" => Arith(e.right) # 0
            /\ Arith(e) >= 0

\* C17: run evaluates a tree by tree arithmetic whenever every sub-result
\* lies in 0..2^64-1 and no divisor is 0: an Int gives its value, a Group its
\* inner value, an Op the sum, difference, product or integer quotient of its
\* operands' values. The tree of "2 + 3 * (4 - 1)" evaluates to 11.
C17_RunIsTreeArithmetic ==
    last.op = "run" =>
        /\ InRange(Strip(last.arg)) =>
              /\ last.ok
              /\ last.ret = Arith(Strip(last.arg))
        /\ Strip(last.arg) = Scenario => last.ret = 11

C17_Witness ==
    /\ last.op = "run"
    /\ buf = Lex(Scenario)
    /\ Strip(last.arg) = Scenario
    /\ last.ok
    /\ last.ret = 11

----------------------------------------------------------------------------
(* The ToTokens specification: buffers rebuilt from literals, parsed again *)

MaxTokLen == 2    \* longest Vec<Literal> that is turned into a buffer

\* the four variants of Literal, each with the span its struct carries
StringLit(sp, text) == [kind |-> "String", span |-> sp, val |-> text]
CharLit(sp, ch) == [kind |-> "Char", span |-> sp, val |-> ch]
IntLit(sp, int, ty) == [kind |-> "Int", span |-> sp, val |-> int, ty |-> ty]
FloatLit(sp, float, ty) == [kind |-> "Float", span |-> sp, val |-> float, ty |-> ty]

\* "abc", 'x', 42u8, 3.14f32 (the float is kept as its bit pattern) and a
\* second integer that differs from 42u8 in span and type only
Literals ==
    { StringLit([lo |-> 10, hi |-> 15], "abc"),
      CharLit([lo |-> 20, hi |-> 23], "x"),
      IntLit([lo |-> 30, hi |-> 34], U128(0, 42), "U8"),
      IntLit([lo |-> 50, hi |-> 52], U128(0, 42), "Unknown"),
      FloatLit([lo |-> 40, hi |-> 47], "bits of 3.14", "F32") }

\* TokenBuffer::new(entries) and TokenBuffer::extend(other)
TokenBufferNew(entries) == entries
TokenBufferExtend(acc, other) == acc \o other

\* impl ToTokens for Literal: one Entry::Literal holding a clone
LiteralToTokens(l) == TokenBufferNew(<<l>>)

OptionToTokens(o) ==
    IF o.some THEN LiteralToTokens(o.v) ELSE TokenBufferNew(<<>>)

RECURSIVE VecFold(_, _)
VecFold(acc, items) ==
    IF items = <<>> THEN acc
    ELSE VecFold(TokenBufferExtend(acc, LiteralToTokens(Head(items))), Tail(items))

\* to_tokens of a Vec that puts each element in front of the ones before it
VecToTokens_prepend(v) ==
    IF v = <<>> THEN TokenBufferNew(<<>>)
    ELSE TokenBufferExtend(VecFold(TokenBufferNew(<<>>), Tail(v)), LiteralToTokens(Head(v)))

VecToTokens(v) == VecFold(TokenBufferNew(<<>>), v)

LiteralVecs == SeqsUpTo(Literals, MaxTokLen)

InitTokens ==
    /\ buf \in {VecToTokens(v) : v \in LiteralVecs}
                \cup {OptionToTokens(o) : o \in {NoneV} \cup {SomeV(l) : l \in Literals}}
    /\ streams = [s \in {"input"} |-> new(Begin, StartSpan)]
    /\ last = Op("new", "input", NoT, TRUE, 0)

DoParseLiterals(s) ==
    Apply("Vec", s, BaseT("Literal"), VecParse(BaseT("Literal"), streams[s]))

NextTokens ==
    \/ \E s \in DOMAIN streams : DoParseOf(s, {BaseT("Literal")})
    \/ \E s \in DOMAIN streams : DoParseLiterals(s)

SpecTokens == InitTokens /\ [][NextTokens]_vars

\* C16: for a Literal l, l.to_tokens() is a buffer of one entry, and parsing
\* Literal from a stream at its beginning yields a value equal to l and leaves
\* the stream at end of input; for a Vec of literals to_tokens is the
\* elements' buffers concatenated in order, and parsing Vec<Literal> from it
\* yields the same sequence; None.to_tokens() is the empty buffer.
C16_LiteralRoundTrip ==
    /\ \A l \in Literals :
          buf = LiteralToTokens(l) =>
              /\ Len(buf) = 1
              /\ (last.op = "parse" /\ cursor(Pre) = Begin) =>
                    /\ last.ok
                    /\ last.ret = l
                    /\ is_empty(Now)
    /\ \A v \in LiteralVecs :
          buf = VecToTokens(v) =>
              /\ Len(buf) = Len(v)
              /\ \A i \in 1..Len(v) : <<buf[i]>> = LiteralToTokens(v[i])
              /\ (last.op = "Vec" /\ cursor(Pre) = Begin) =>
                    /\ last.ok
                    /\ last.ret = v
    /\ OptionToTokens(NoneV) = <<>>

C16_Witness ==
    /\ last.op = "Vec"
    /\ cursor(Pre) = Begin
    /\ last.ret = <<IntLit([lo |-> 30, hi |-> 34], U128(0, 42), "U8"),
                    StringLit([lo |-> 10, hi |-> 15], "abc")>>
    /\ is_empty(Now)

----------------------------------------------------------------------------
(* The distance specification: a parent, a kept fork, and steps between them *)

\* history: the number of single-entry steps that succeeded on the fork since
\* it was taken, the parent not having moved; -1 when that is not known
Advanced ==
    CASE last.op = "fork" -> 0
      [] last.op \in {"advance", "steps"} -> last.arg
      [] OTHER -> -1

\* s.parse::<Entry>(): one single-entry step
DoAdvance(s) ==
    LET r == parse(BaseT("Entry"), streams[s])
    IN  /\ streams' = [streams EXCEPT ![s] = r.st]
        /\ last' = [Op("advance", s, BaseT("Entry"), r.ok, r.val) EXCEPT
                       !.arg = IF s # "ahead" \/ Advanced < 0 THEN -1
                               ELSE IF r.ok THEN Advanced + 1 ELSE Advanced]
        /\ UNCHANGED buf

\* s.steps(&o)
DoStepsTo(s) == \E o \in DOMAIN streams :
    /\ last' = [Op("steps", s, NoT, TRUE, [to |-> o, n |-> steps(streams[s], streams[o])])
                   EXCEPT !.arg = Advanced]
    /\ UNCHANGED <<buf, streams>>

NextSteps ==
    \/ DoForkAhead
    \/ \E s \in DOMAIN streams : DoAdvance(s)
    \/ \E s \in DOMAIN streams : DoStepsTo(s)

SpecSteps == InitFork /\ [][NextSteps]_vars

\* the number of single-entry advances that take cursor c to cursor d
RECURSIVE BumpsBetween(_, _)
BumpsBetween(c, d) == IF c = d THEN 0 ELSE 1 + BumpsBetween(CursorBump(c), d)

\* C18: a.steps(b) is the number of single-entry advances that move a's
\* cursor to b's cursor: 0 when both are at the same position, and k when b
\* is a fork of a on which exactly k single-entry steps have succeeded since.
C18_StepsCountsAdvances ==
    last.op = "steps" =>
        LET a == streams[last.s]
            b == streams[last.ret.to]
        IN  /\ cursor(b) >= cursor(a) => last.ret.n = BumpsBetween(cursor(a), cursor(b))
            /\ cursor(a) = cursor(b) => last.ret.n = 0
            /\ (last.s = "input" /\ last.ret.to = "ahead" /\ last.arg >= 0) =>
                  last.ret.n = last.arg

C18_Witness ==
    /\ last.op = "steps"
    /\ last.s = "input"
    /\ last.ret.to = "ahead"
    /\ last.arg = 2
    /\ last.ret.n = 2
    /\ cursor(streams["input"]) = Begin

----------------------------------------------------------------------------
(* The Vec<T>::parse loop, one iteration per step *)

\* Option<U> as the element type of a Vec
OptT(name) == [name |-> "option", peek |-> name, steps |-> <<name>>]

\* T::parse for the element type of the loop
ElemParse(E, st) ==
    IF E.name = "option" THEN OptionParse(BaseT(E.steps[1]), st) ELSE parse(E, st)

\* the loop condition: !input.is_empty() && input.fork().parse::<T>().is_ok()
VecCond(E, st) == ~is_empty(st) /\ ElemParse(E, fork(st)).ok

\* a commit that parses on a fork and leaves the stream where it was
VecCommit_onFork(E, st) == [ElemParse(E, fork(st)) EXCEPT !.st = st]

\* the loop body: input.parse::<T>()?
VecCommit(E, st) == ElemParse(E, st)

ConsumingTs == ElemTs
ZeroWidthTs == {OptT("TAdd"), OptT("Literal")}

\* Vec::<T>::parse(input) has been entered with an empty `items`
InitVecLoop ==
    /\ buf \in VecBuffers
    /\ streams = [s \in {"input"} |-> new(Begin, StartSpan)]
    /\ \E E \in ConsumingTs \cup ZeroWidthTs : last = Op("enter", "input", E, TRUE, <<>>)

InLoop == last.op \in {"enter", "push"}

\* one iteration; the model stops following a run after Len(buf) + 2 pushes,
\* more than a loop that consumes an entry per push can make
DoVecPush ==
    /\ InLoop
    /\ Len(last.ret) < Len(buf) + 2
    /\ VecCond(last.T, streams["input"])
    /\ LET r == VecCommit(last.T, streams["input"])
       IN  /\ streams' = [streams EXCEPT !["input"] = r.st]
           /\ last' = IF r.ok
                      THEN Op("push", "input", last.T, TRUE, Append(last.ret, r.val))
                      ELSE Op("Vec", "input", last.T, FALSE, r.val)
    /\ UNCHANGED buf

\* the condition is false: Ok(items)
DoVecReturn ==
    /\ InLoop
    /\ ~VecCond(last.T, streams["input"])
    /\ last' = Op("Vec", "input", last.T, TRUE, last.ret)
    /\ UNCHANGED <<buf, streams>>

NextVecLoop ==
    \/ DoVecPush
    \/ DoVecReturn

SpecVecLoop == InitVecLoop /\ [][NextVecLoop]_vars /\ WF_vars(NextVecLoop)

\* C19: Vec<T>::parse terminates on every finite buffer when a successful
\* T::parse advances the cursor by at least one entry, and then has committed
\* at most as many elements as there were entries; the loop has no other
\* guard for progress: once a committed element has consumed nothing, the
\* call never returns.
C19_VecTerminates ==
    /\ (last.T \in ConsumingTs) => <>(last.op = "Vec")
    /\ []((last.op = "Vec" /\ last.T \in ConsumingTs) =>
              /\ last.ok
              /\ Len(last.ret) <= Len(buf))
    /\ []((last.op = "push" /\ cursor(Now) = cursor(Pre)) => [](last.op # "Vec"))

C19_Witness ==
    /\ last.op = "Vec"
    /\ last.T = BaseT("Literal")
    /\ Len(buf) = 3
    /\ Len(last.ret) = 3
    /\ is_empty(Now)

----------------------------------------------------------------------------
(* The node id specification: element types that take an id per parse *)

IdTs ==
    {IdNodeT(a, f) : a \in {"first", "last"},
                     f \in {<<"IntLiteral">>, <<"IntLiteral", "TAdd">>}}

DoParseIdVec(s) == \E T \in IdTs :
    Apply("Vec", s, T, VecParse(T, streams[s]))

NextIds ==
    \/ \E s \in DOMAIN streams : DoSetNodeId(s)
    \/ \E s \in DOMAIN streams : DoParseIdVec(s)
    \/ \E s \in DOMAIN streams : DoStep(s)
    \/ \E s \in DOMAIN streams : DoPeek(s)
    \/ \E s \in DOMAIN streams : DoPeek2(s)
    \/ \E s \in DOMAIN streams : DoPeek3(s)
    \/ \E s \in DOMAIN streams : DoPeek4(s)
    \/ \E s \in DOMAIN streams : DoFork(s)

SpecIds == InitFork /\ [][NextIds]_vars

\* the ids the successive fork attempts of Vec<T>::parse hand out, the
\* stream moving on by a commit after each successful attempt
RECURSIVE AttemptIds(_, _)
AttemptIds(T, st) ==
    LET attempt == parse(T, fork(st))
    IN  IF ~is_empty(st) /\ attempt.ok
        THEN <<attempt.val.id>> \o AttemptIds(T, parse(T, st).st)
        ELSE <<>>

\* C20: speculative parses do not consume node ids. With a T whose successful
\* parse takes one id, Vec<T>::parse returning k elements leaves the stream's
\* node_id exactly k higher: what the fork attempts took, the failed last
\* attempt included, is dropped with the forks, and every committed element
\* has the id its fork attempt had. step, peek, peek2/3/4 and fork leave
\* node_id as it was.
C20_ForksKeepNodeIds ==
    /\ last.op = "Vec" =>
          /\ last.ok
          /\ Now.node_id = Pre.node_id + Len(last.ret)
          /\ \A i \in 1..Len(last.ret) : last.ret[i].id = Pre.node_id + i - 1
          /\ [i \in 1..Len(last.ret) |-> last.ret[i].id] = AttemptIds(last.T, Pre)
    /\ last.op \in {"step", "peek", "peek2", "peek3", "peek4", "fork"} =>
          Now.node_id = Pre.node_id

C20_Witness ==
    /\ last.op = "Vec"
    /\ last.T = IdNodeT("first", <<"IntLiteral">>)
    /\ Len(last.ret) = 1
    /\ Pre.node_id = 1
    /\ Now.node_id = 2
    /\ ~is_empty(Now)
    /\ parse(last.T, fork(Now)).st.node_id = 3

----------------------------------------------------------------------------
(* The wide-literal specification: integer literals of up to 128 bits *)

MaxHi == 2    \* largest high 64-bit word of a literal's magnitude

\* low 64-bit words of the literals
LowWords == {0, 1, 5}

\* an integer literal of magnitude hi * 2^64 + lo
WideTok(hi, lo) == [kind |-> "Int", val |-> U128(hi, lo)]

WideToks == {WideTok(hi, lo) : hi \in 0..MaxHi, lo \in LowWords}

\* the source texts `m`, `(m)` and `m op n`
WideTexts ==
    {<<m>> : m \in WideToks}
    \cup {<<PunctTok("("), m, PunctTok(")")>> : m \in WideToks}
    \cup {<<m, PunctTok(OpSymbol(o)), n>> : m \in WideToks, n \in WideToks, o \in AllOps}

InitWide ==
    /\ buf \in {MkBuf(t) : t \in WideTexts}
    /\ streams = [s \in {"input"} |-> new(Begin, StartSpan)]
    /\ last = Op("new", "input", NoT, TRUE, 0)

SpecWide == InitWide /\ [][NextMain]_vars

\* a u64 value as a 128-bit magnitude
Widen(v) == U128(0, v)

\* the Int nodes of a tree
IntNodes(a) == {n \in Nodes(a) : n.tag = "Int"}

\* C21: parse_int turns the 128-bit magnitude of an integer literal into the
\* 64-bit value of Ast::Int by truncation, val = int mod 2^64: the magnitude
\* is q * 2^64 + val for some q. A literal of magnitude at least 2^64 parses
\* without an error, to a value that is not its magnitude; a literal below
\* 2^64 keeps its value.
C21_IntTruncatesTo64Bits ==
    last.op = "parse_add_sub" =>
        /\ last.ok
        /\ buf[1].kind = "Int" => buf[1].span \in {n.span : n \in IntNodes(last.ret)}
        /\ \A n \in IntNodes(last.ret) :
              LET int == buf[n.span.lo].val
              IN  /\ \E q \in 0..MaxHi : int = U128(q, n.val)
                  /\ int.hi >= 1 => Widen(n.val) # int
                  /\ int.hi = 0 => Widen(n.val) = int

C21_Witness ==
    /\ last.op = "parse_add_sub"
    /\ Len(buf) = 1
    /\ buf[1].val = U128(1, 5)
    /\ last.ok
    /\ last.ret = IntAst(buf[1].span, 5)

====
